---- MODULE Spec2Model ----
(***************************************************************************)
(* Word-search puzzle generator: the construction of a WordSearch puzzle   *)
(* (src/src/wordsearch/generate.py).  A puzzle is built by placing the     *)
(* words, longest first, at a position of best overlap, and then filling   *)
(* the blank cells with random letters.  Characters are one-character      *)
(* strings, Python strings and lists are sequences, and grid[r][c] of the  *)
(* code (0-based) is grid[r + 1][c + 1] here.                              *)
(***************************************************************************)
EXTENDS Integers, Sequences, FiniteSets, TLC

(* ------------------------------ bounds -------------------------------- *)

\* the largest grid size tried
MaxSize == 2

\* the largest number of entries of word_list
MaxWords == 2

(* ---------------------------- characters ------------------------------ *)

AsciiLowercase ==
    << "a", "b", "c", "d", "e", "f", "g", "h", "i", "j", "k", "l", "m",
       "n", "o", "p", "q", "r", "s", "t", "u", "v", "w", "x", "y", "z" >>

\* string.ascii_uppercase
AsciiUppercase ==
    << "A", "B", "C", "D", "E", "F", "G", "H", "I", "J", "K", "L", "M",
       "N", "O", "P", "Q", "R", "S", "T", "U", "V", "W", "X", "Y", "Z" >>

\* the blank sentinel of create_grid
Blank == " "

Range(s) == { s[i] : i \in DOMAIN s }

\* str.upper() on one (ASCII) character
UpperChar(ch) ==
    IF \E i \in DOMAIN AsciiLowercase : AsciiLowercase[i] = ch
    THEN AsciiUppercase[CHOOSE i \in DOMAIN AsciiLowercase : AsciiLowercase[i] = ch]
    ELSE ch

\* str.upper()
Upper(w) == [ i \in DOMAIN w |-> UpperChar(w[i]) ]

\* str.replace(" ", "")
RECURSIVE RemoveSpaces(_)
RemoveSpaces(w) ==
    IF w = << >> THEN << >>
    ELSE IF Head(w) = " " THEN RemoveSpaces(Tail(w))
    ELSE << Head(w) >> \o RemoveSpaces(Tail(w))

\* word_clean = word.upper().replace(" ", "")
CleanWord(word) == RemoveSpaces(Upper(word))

\* a sort key that counts the spaces of the word as well
SortKeyRawLength(w) == 0 - Len(w)

\* the sort key of __init__: -len(w.replace(" ", ""))
SortKey(w) == 0 - Len(RemoveSpaces(w))

(* ------------------ sorted(word_list, key=...) ------------------------ *)

\* insert w behind every entry whose key is not greater (the sort is stable)
RECURSIVE InsertByKey(_, _)
InsertByKey(sorted, w) ==
    IF sorted = << >> THEN << w >>
    ELSE IF SortKey(Head(sorted)) <= SortKey(w)
         THEN << Head(sorted) >> \o InsertByKey(Tail(sorted), w)
         ELSE << w >> \o sorted

RECURSIVE SortFrom(_, _)
SortFrom(list, sorted) ==
    IF list = << >> THEN sorted
    ELSE SortFrom(Tail(list), InsertByKey(sorted, Head(list)))

\* list without the entries whose cleaned form an earlier entry has
RECURSIVE DropRepeats(_, _)
DropRepeats(list, seen) ==
    IF list = << >> THEN << >>
    ELSE IF CleanWord(Head(list)) \in seen
         THEN DropRepeats(Tail(list), seen)
         ELSE << Head(list) >>
                  \o DropRepeats(Tail(list), seen \cup { CleanWord(Head(list)) })

\* a sort that keeps one entry per cleaned word
SortedWordsDistinct(word_list) == SortFrom(DropRepeats(word_list, { }), << >>)

SortedWords(word_list) == SortFrom(word_list, << >>)

(* ------------------ "row,col,dr,dc" position strings ------------------ *)

Digits == << "0", "1", "2", "3", "4", "5", "6", "7", "8", "9" >>

RECURSIVE NatToStr(_)
NatToStr(n) ==
    IF n < 10 THEN << Digits[n + 1] >>
    ELSE NatToStr(n \div 10) \o << Digits[(n % 10) + 1] >>

\* the text an f-string gives an int
IntToStr(n) == IF n < 0 THEN << "-" >> \o NatToStr(0 - n) ELSE NatToStr(n)

\* f"{row},{col},{dr},{dc}"
FormatPos(row, col, dr, dc) ==
    IntToStr(row) \o << "," >> \o IntToStr(col) \o << "," >>
        \o IntToStr(dr) \o << "," >> \o IntToStr(dc)

\* str.split(","): the fields between the commas
RECURSIVE SplitComma(_, _, _)
SplitComma(s, cur, acc) ==
    IF s = << >> THEN Append(acc, cur)
    ELSE IF Head(s) = "," THEN SplitComma(Tail(s), << >>, Append(acc, cur))
    ELSE SplitComma(Tail(s), Append(cur, Head(s)), acc)

DigitValue(ch) == (CHOOSE i \in DOMAIN Digits : Digits[i] = ch) - 1

RECURSIVE StrToNat(_, _)
StrToNat(s, acc) ==
    IF s = << >> THEN acc
    ELSE StrToNat(Tail(s), 10 * acc + DigitValue(Head(s)))

\* int() of a decimal field
StrToInt(s) ==
    IF s # << >> /\ Head(s) = "-" THEN 0 - StrToNat(Tail(s), 0)
    ELSE StrToNat(s, 0)

\* row, col, dr, dc = map(int, pos_str.split(","))
ParsePos(pos_str) ==
    LET f == SplitComma(pos_str, << >>, << >>)
    IN  [ row |-> StrToInt(f[1]), col |-> StrToInt(f[2]),
          dr |-> StrToInt(f[3]), dc |-> StrToInt(f[4]) ]

(* ----------------------------- directions ----------------------------- *)

\* directions of place_word_in_grid_basic
BasicDirections == << <<0, 1>>, <<1, 0>>, <<1, 1>> >>

\* directions of place_word_in_grid_advanced
AdvancedDirections ==
    << <<0, 1>>, <<0, -1>>, <<1, 0>>, <<-1, 0>>,
       <<1, 1>>, <<-1, -1>>, <<1, -1>>, <<-1, 1>> >>

(* ------------------------------- inputs ------------------------------- *)

\* the raw words a word_list is drawn from: "ab", "A b", "Bc", "c-", "abc"
\* (two that clean to the same string, one with a space, words that share
\* letters and words that share none, a character that is no letter)
Vocabulary ==
    { << "a", "b" >>, << "A", " ", "b" >>, << "B", "c" >>, << "c", "-" >>,
      << "a", "b", "c" >> }

\* the letters random.choice(string.ascii_uppercase) returns during one fill
\* pass, in the order of the calls: one of these sequences, repeated
NoiseStreams == { << "A", "Q" >>, << "B", "Z", "C" >> }

\* grid_size: non-positive sizes are accepted by the constructor as well
Sizes == (0 - 1) .. MaxSize

WordLists == UNION { [ 1 .. n -> Vocabulary ] : n \in 0 .. MaxWords }

(* -------------------------------- state ------------------------------- *)

VARIABLES
    words,         \* self.words: word_list as given
    size,          \* self.size
    use_basic,     \* the use_basic argument
    grid,          \* self.grid: a list of rows of characters
    solution,      \* self.solution: a list of {word: pos_str}
    failed_words,  \* self.failed_words
    sorted_words,  \* the local sorted_words of __init__
    idx,           \* the next entry of sorted_words the loop of __init__ takes
    pc,            \* where __init__ is: "place", "fill" or "done"
    out,           \* the last call of a formatter and the value it returned
    other,         \* a second WordSearch under construction, or NoPuzzle
    attempt,       \* the calls of generate_puzzle a retry loop has made
    data           \* the parsed JSON value handed to validate_json_data

vars == << words, size, use_basic, grid, solution, failed_words,
           sorted_words, idx, pc, out, other, attempt, data >>

\* no JSON value has been loaded
NoData == [ t |-> "absent" ]

\* no formatter has been called
NoCall == [ call |-> "none", result |-> << >> ]

\* no second puzzle is being built
NoPuzzle == [ pc |-> "none" ]

\* range(n)
PyRange(n) == 0 .. (n - 1)

\* [[" " for _ in range(self.size)] for _ in range(self.size)]
create_grid(n) ==
    [ r \in 1 .. (IF n > 0 THEN n ELSE 0) |->
        [ c \in 1 .. (IF n > 0 THEN n ELSE 0) |-> Blank ] ]

Cell(g, r, c) == g[r + 1][c + 1]

(* ------------------------ _find_best_position ------------------------- *)

\* a walk that counts the overlap and rejects no candidate for a cell that
\* holds another letter
RECURSIVE WalkOverConflicts(_, _, _, _, _, _, _, _)
WalkOverConflicts(g, word, row, col, dr, dc, i, overlap) ==
    IF i >= Len(word) THEN overlap
    ELSE WalkOverConflicts(g, word, row, col, dr, dc, i + 1,
                           IF Cell(g, row + dr * i, col + dc * i) = word[i + 1]
                           THEN overlap + 1 ELSE overlap)

\* a walk that accepts blank cells only
RECURSIVE WalkBlankOnly(_, _, _, _, _, _, _, _)
WalkBlankOnly(g, word, row, col, dr, dc, i, overlap) ==
    IF i >= Len(word) THEN overlap
    ELSE IF Cell(g, row + dr * i, col + dc * i) = Blank
         THEN WalkBlankOnly(g, word, row, col, dr, dc, i + 1, overlap)
         ELSE 0 - 1

\* the walk over the word_length cells of one candidate: the overlap, or -1
\* once a cell holds another letter (fits = False)
RECURSIVE Walk(_, _, _, _, _, _, _, _)
Walk(g, word, row, col, dr, dc, i, overlap) ==
    IF i >= Len(word) THEN overlap
    ELSE LET cell == Cell(g, row + dr * i, col + dc * i)
         IN  IF cell \in { Blank, word[i + 1] }
             THEN Walk(g, word, row, col, dr, dc, i + 1,
                       IF cell = word[i + 1] THEN overlap + 1 ELSE overlap)
             ELSE 0 - 1

\* a fit check that takes the cell behind the last letter for the end cell
EndInGridOneBeyond(n, L, row, col, dr, dc) ==
    LET end_row == row + dr * L
        end_col == col + dc * L
    IN  0 <= end_row /\ end_row < n /\ 0 <= end_col /\ end_col < n

\* a fit check that takes the start cell for the end cell of an empty word
EndInGridFromStart(n, L, row, col, dr, dc) ==
    LET steps == IF L = 0 THEN 0 ELSE L - 1
        end_row == row + dr * steps
        end_col == col + dc * steps
    IN  0 <= end_row /\ end_row < n /\ 0 <= end_col /\ end_col < n

\* the check that the word fits: the end cell lies in the grid
EndInGrid(n, L, row, col, dr, dc) ==
    LET end_row == row + dr * (L - 1)
        end_col == col + dc * (L - 1)
    IN  0 <= end_row /\ end_row < n /\ 0 <= end_col /\ end_col < n

\* an update that starts the list again at every candidate that reaches the
\* maximum, so that ties are lost
UpdateBestKeepsLast(acc, cand, overlap) ==
    IF overlap >= acc.max_overlap
    THEN [ best_positions |-> << cand >>, max_overlap |-> overlap ]
    ELSE acc

\* an update that compares the wrong way round once a candidate is held, so
\* that the least overlap wins
UpdateBestPrefersLeast(acc, cand, overlap) ==
    IF acc.max_overlap < 0 \/ overlap < acc.max_overlap
    THEN [ best_positions |-> << cand >>, max_overlap |-> overlap ]
    ELSE IF overlap = acc.max_overlap
    THEN [ acc EXCEPT !.best_positions = Append(acc.best_positions, cand) ]
    ELSE acc

\* the update of (best_positions, max_overlap) by one fitting candidate
UpdateBest(acc, cand, overlap) ==
    IF overlap > acc.max_overlap
    THEN [ best_positions |-> << cand >>, max_overlap |-> overlap ]
    ELSE IF overlap = acc.max_overlap
    THEN [ acc EXCEPT !.best_positions = Append(acc.best_positions, cand) ]
    ELSE acc

\* a candidate is taken only if it crosses a letter already in the grid
TryCandidateNeedsOverlap(g, n, word, d, row, col, acc) ==
    IF ~EndInGrid(n, Len(word), row, col, d[1], d[2]) THEN acc
    ELSE LET overlap == Walk(g, word, row, col, d[1], d[2], 0, 0)
         IN  IF overlap > 0
             THEN UpdateBest(acc, [ row |-> row, col |-> col, dr |-> d[1], dc |-> d[2] ],
                             overlap)
             ELSE acc

\* one candidate (row, col, dr, dc): the bounds check, the walk and, when the
\* word fits, the update of (best_positions, max_overlap)
TryCandidate(g, n, word, d, row, col, acc) ==
    IF ~EndInGrid(n, Len(word), row, col, d[1], d[2]) THEN acc
    ELSE LET overlap == Walk(g, word, row, col, d[1], d[2], 0, 0)
         IN  IF overlap >= 0
             THEN UpdateBest(acc, [ row |-> row, col |-> col, dr |-> d[1], dc |-> d[2] ],
                             overlap)
             ELSE acc

\* for col in range(self.size); the state after one candidate is computed
\* once (a) and handed to the rest of the loop
RECURSIVE ScanCols(_, _, _, _, _, _, _)
ScanCols(g, n, word, d, row, col, acc) ==
    IF col >= n \/ acc.max_overlap < 0 - 1 THEN acc
    ELSE CHOOSE r \in { ScanCols(g, n, word, d, row, col + 1, a) :
                             a \in { TryCandidate(g, n, word, d, row, col, acc) } } : TRUE

\* for row in range(self.size)
RECURSIVE ScanRows(_, _, _, _, _, _)
ScanRows(g, n, word, d, row, acc) ==
    IF row >= n \/ acc.max_overlap < 0 - 1 THEN acc
    ELSE CHOOSE r \in { ScanRows(g, n, word, d, row + 1, a) :
                             a \in { ScanCols(g, n, word, d, row, 0, acc) } } : TRUE

\* for dr, dc in directions
RECURSIVE ScanDirections(_, _, _, _, _, _)
ScanDirections(g, n, word, directions, k, acc) ==
    IF k > Len(directions) \/ acc.max_overlap < 0 - 1 THEN acc
    ELSE CHOOSE r \in { ScanDirections(g, n, word, directions, k + 1, a) :
                             a \in { ScanRows(g, n, word, directions[k], 0, acc) } } : TRUE

\* best_positions after the search
BestPositions(g, n, word, directions) ==
    CHOOSE best \in
        { ScanDirections(g, n, w, ds, 1,
              [ best_positions |-> << >>, max_overlap |-> 0 - 1 ]).best_positions :
          w \in { word }, ds \in { directions } } : TRUE

\* for i in range(word_length): self.grid[r][c] = word[i]
RECURSIVE WriteWord(_, _, _, _)
WriteWord(g, word, p, i) ==
    IF i >= Len(word) THEN g
    ELSE LET r == p.row + p.dr * i
             c == p.col + p.dc * i
         IN  WriteWord([ g EXCEPT ![r + 1][c + 1] = word[i + 1] ], word, p, i + 1)

\* a record that keeps the last cell written in place of the start
SolutionEntryOfEnd(word, p) ==
    [ word |-> word,
      pos_str |-> FormatPos(p.row + p.dr * (Len(word) - 1),
                            p.col + p.dc * (Len(word) - 1), p.dr, p.dc) ]

\* solution = {word: f"{row},{col},{dr},{dc}"}
SolutionEntry(word, p) ==
    [ word |-> word, pos_str |-> FormatPos(p.row, p.col, p.dr, p.dc) ]

\* a choice of directions that ignores use_basic
DirectionsAlwaysAdvanced(basic) == AdvancedDirections

\* the directions __init__ selects by use_basic
Directions(basic) == IF basic THEN BasicDirections ELSE AdvancedDirections

(* ------------------- parse_solution_entry, get_highlights ------------- *)

\* a table whose two downward diagonals are exchanged
DirectionNameDiagonalsSwapped(dr, dc) ==
    IF dr = 0 /\ dc = 1 THEN "horizontal_left_to_right"
    ELSE IF dr = 0 /\ dc = 0 - 1 THEN "horizontal_right_to_left"
    ELSE IF dr = 1 /\ dc = 0 THEN "vertical_top_to_bottom"
    ELSE IF dr = 0 - 1 /\ dc = 0 THEN "vertical_bottom_to_top"
    ELSE IF dr = 1 /\ dc = 1 THEN "diagonal_top_right_to_bottom_left"
    ELSE IF dr = 0 - 1 /\ dc = 1 THEN "diagonal_bottom_left_to_top_right"
    ELSE IF dr = 1 /\ dc = 0 - 1 THEN "diagonal_top_left_to_bottom_right"
    ELSE IF dr = 0 - 1 /\ dc = 0 - 1 THEN "diagonal_bottom_right_to_top_left"
    ELSE "unknown"

\* the direction inferred from (dr, dc), as direction.name.lower()
DirectionName(dr, dc) ==
    IF dr = 0 /\ dc = 1 THEN "horizontal_left_to_right"
    ELSE IF dr = 0 /\ dc = 0 - 1 THEN "horizontal_right_to_left"
    ELSE IF dr = 1 /\ dc = 0 THEN "vertical_top_to_bottom"
    ELSE IF dr = 0 - 1 /\ dc = 0 THEN "vertical_bottom_to_top"
    ELSE IF dr = 1 /\ dc = 1 THEN "diagonal_top_left_to_bottom_right"
    ELSE IF dr = 0 - 1 /\ dc = 1 THEN "diagonal_bottom_left_to_top_right"
    ELSE IF dr = 1 /\ dc = 0 - 1 THEN "diagonal_top_right_to_bottom_left"
    ELSE IF dr = 0 - 1 /\ dc = 0 - 1 THEN "diagonal_bottom_right_to_top_left"
    ELSE "unknown"

\* a parse that returns the start as (col, row)
parse_solution_entry_transposed(word, pos_str) ==
    LET p == ParsePos(pos_str)
    IN  [ word |-> word, start |-> << p.col, p.row >>,
          direction |-> DirectionName(p.dr, p.dc), length |-> Len(word) ]

parse_solution_entry(word, pos_str) ==
    LET p == ParsePos(pos_str)
    IN  [ word |-> word, start |-> << p.row, p.col >>,
          direction |-> DirectionName(p.dr, p.dc), length |-> Len(word) ]

\* one highlight per entry of self.solution, in its order
get_highlights(sol) ==
    [ j \in DOMAIN sol |-> parse_solution_entry(sol[j].word, sol[j].pos_str) ]

(* -------------------------- direction_to_delta ------------------------ *)

\* a renderer table that names the deltas as the comments of
\* place_word_in_grid_advanced do: (1, -1) bottom-left to top-right
direction_to_delta_as_commented(direction) ==
    IF direction = "horizontal_left_to_right" THEN << 0, 1 >>
    ELSE IF direction = "horizontal_right_to_left" THEN << 0, 0 - 1 >>
    ELSE IF direction = "vertical_top_to_bottom" THEN << 1, 0 >>
    ELSE IF direction = "vertical_bottom_to_top" THEN << 0 - 1, 0 >>
    ELSE IF direction = "diagonal_top_left_to_bottom_right" THEN << 1, 1 >>
    ELSE IF direction = "diagonal_bottom_left_to_top_right" THEN << 1, 0 - 1 >>
    ELSE IF direction = "diagonal_top_right_to_bottom_left" THEN << 0 - 1, 1 >>
    ELSE IF direction = "diagonal_bottom_right_to_top_left" THEN << 0 - 1, 0 - 1 >>
    ELSE << 0, 1 >>

\* mapping.get(direction, (0, 1))
direction_to_delta(direction) ==
    IF direction = "horizontal_left_to_right" THEN << 0, 1 >>
    ELSE IF direction = "horizontal_right_to_left" THEN << 0, 0 - 1 >>
    ELSE IF direction = "vertical_top_to_bottom" THEN << 1, 0 >>
    ELSE IF direction = "vertical_bottom_to_top" THEN << 0 - 1, 0 >>
    ELSE IF direction = "diagonal_top_left_to_bottom_right" THEN << 1, 1 >>
    ELSE IF direction = "diagonal_bottom_left_to_top_right" THEN << 0 - 1, 1 >>
    ELSE IF direction = "diagonal_top_right_to_bottom_left" THEN << 1, 0 - 1 >>
    ELSE IF direction = "diagonal_bottom_right_to_top_left" THEN << 0 - 1, 0 - 1 >>
    ELSE << 0, 1 >>

(* ------------------------------ __init__ ------------------------------ *)

Init ==
    /\ words \in WordLists
    /\ size \in Sizes
    /\ use_basic \in BOOLEAN
    /\ grid = create_grid(size)
    /\ solution = << >>
    /\ failed_words = << >>
    /\ sorted_words = SortedWords(words)
    /\ idx = 1
    /\ pc = "place"
    /\ out = NoCall
    /\ other = NoPuzzle
    /\ attempt = 0
    /\ data = NoData

\* a pass that may give its word up although a candidate exists, as a
\* placement by random trials would
PlaceWordMayGiveUp ==
    /\ pc = "place"
    /\ idx <= Len(sorted_words)
    /\ LET word == sorted_words[idx]
           word_clean == CleanWord(word)
           best == BestPositions(grid, size, word_clean, Directions(use_basic))
       IN  \E p \in Range(best) :
                \/ /\ solution' = Append(solution, SolutionEntry(word_clean, p))
                   /\ grid' = WriteWord(grid, word_clean, p, 0)
                   /\ failed_words' = failed_words
                \/ /\ failed_words' = Append(failed_words, word)
                   /\ UNCHANGED << grid, solution >>
    /\ idx' = idx + 1
    /\ UNCHANGED << words, size, use_basic, sorted_words, pc >>
    /\ UNCHANGED << out, other, attempt, data >>

\* one pass of the loop "for word in sorted_words" whose placement succeeds:
\* random.choice among best_positions, the record, the letters written
PlaceWord ==
    /\ pc = "place"
    /\ idx <= Len(sorted_words)
    /\ LET word == sorted_words[idx]
           word_clean == CleanWord(word)
           best == BestPositions(grid, size, word_clean, Directions(use_basic))
       IN  \E p \in Range(best) :
                /\ solution' = Append(solution, SolutionEntry(word_clean, p))
                /\ grid' = WriteWord(grid, word_clean, p, 0)
    /\ idx' = idx + 1
    /\ UNCHANGED << words, size, use_basic, failed_words, sorted_words, pc >>
    /\ UNCHANGED << out, other, attempt, data >>

\* a failing pass that has written the first letter of the word before it
\* found that the word does not fit
FailWordPartialWrite ==
    /\ pc = "place"
    /\ idx <= Len(sorted_words)
    /\ LET word == sorted_words[idx]
           word_clean == CleanWord(word)
           best == BestPositions(grid, size, word_clean, Directions(use_basic))
       IN  /\ best = << >>
           /\ failed_words' = Append(failed_words, word)
           /\ grid' = IF size > 0 /\ word_clean # << >>
                      THEN [ grid EXCEPT ![1][1] = word_clean[1] ]
                      ELSE grid
    /\ idx' = idx + 1
    /\ UNCHANGED << words, size, use_basic, solution, sorted_words, pc >>
    /\ UNCHANGED << out, other, attempt, data >>

\* a failing pass that records nothing
FailWordNoAppend ==
    /\ pc = "place"
    /\ idx <= Len(sorted_words)
    /\ BestPositions(grid, size, CleanWord(sorted_words[idx]), Directions(use_basic)) = << >>
    /\ idx' = idx + 1
    /\ UNCHANGED << words, size, use_basic, grid, solution, failed_words,
                    sorted_words, pc >>
    /\ UNCHANGED << out, other, attempt, data >>

\* a failing pass that records the cleaned word in place of the original
FailWordAppendsClean ==
    /\ pc = "place"
    /\ idx <= Len(sorted_words)
    /\ BestPositions(grid, size, CleanWord(sorted_words[idx]), Directions(use_basic)) = << >>
    /\ failed_words' = Append(failed_words, CleanWord(sorted_words[idx]))
    /\ idx' = idx + 1
    /\ UNCHANGED << words, size, use_basic, grid, solution, sorted_words, pc >>
    /\ UNCHANGED << out, other, attempt, data >>

\* a failing pass that tries the same word again
FailWordRetries ==
    /\ pc = "place"
    /\ idx <= Len(sorted_words)
    /\ BestPositions(grid, size, CleanWord(sorted_words[idx]), Directions(use_basic)) = << >>
    /\ idx' = idx
    /\ UNCHANGED << words, size, use_basic, grid, solution, failed_words,
                    sorted_words, pc >>
    /\ UNCHANGED << out, other, attempt, data >>

\* one pass of the loop whose placement returns False
FailWord ==
    /\ pc = "place"
    /\ idx <= Len(sorted_words)
    /\ LET word == sorted_words[idx]
           word_clean == CleanWord(word)
           best == BestPositions(grid, size, word_clean, Directions(use_basic))
       IN  /\ best = << >>
           /\ failed_words' = Append(failed_words, word)
    /\ idx' = idx + 1
    /\ UNCHANGED << words, size, use_basic, grid, solution, sorted_words, pc >>
    /\ UNCHANGED << out, other, attempt, data >>

\* the loop is over
EndPlacement ==
    /\ pc = "place"
    /\ idx > Len(sorted_words)
    /\ pc' = "fill"
    /\ UNCHANGED << words, size, use_basic, grid, solution, failed_words,
                    sorted_words, idx >>
    /\ UNCHANGED << out, other, attempt, data >>

\* fill_empty_spaces after the cells before (row, col) in row-major order
\* are done, with k letters drawn so far: a cell that holds the blank takes
\* the next letter random.choice returns, any other cell is left alone
RECURSIVE FillFrom(_, _, _, _, _, _)
FillFrom(g, n, row, col, stream, k) ==
    IF row >= n THEN g
    ELSE IF col >= n THEN FillFrom(g, n, row + 1, 0, stream, k)
    ELSE IF Cell(g, row, col) = Blank
    THEN FillFrom([ g EXCEPT ![row + 1][col + 1] = stream[(k % Len(stream)) + 1] ],
                  n, row, col + 1, stream, k + 1)
    ELSE FillFrom(g, n, row, col + 1, stream, k)

\* a fill that assigns every cell, blank or not
fill_every_cell(g, n, stream) ==
    [ r \in DOMAIN g |-> [ c \in DOMAIN g[r] |-> stream[1] ] ]

\* a fill whose loops stop one row and one column early
fill_but_last(g, n, stream) == FillFrom(g, n - 1, 0, 0, stream, 0)

\* a fill whose test is inverted: the cells that hold a letter are assigned
fill_inverted(g, n, stream) ==
    [ r \in DOMAIN g |->
        [ c \in DOMAIN g[r] |-> IF g[r][c] # Blank THEN stream[1] ELSE g[r][c] ] ]

fill_empty_spaces(g, n, stream) == FillFrom(g, n, 0, 0, stream, 0)

\* self.fill_empty_spaces(self.grid), the last statement of __init__
FillEmptySpaces ==
    /\ pc = "fill"
    /\ \E stream \in NoiseStreams : grid' = fill_empty_spaces(grid, size, stream)
    /\ pc' = "done"
    /\ UNCHANGED << words, size, use_basic, solution, failed_words,
                    sorted_words, idx >>
    /\ UNCHANGED << out, other, attempt, data >>

\* a call of get_highlights that empties self.solution as it goes
GetHighlightsDrains ==
    /\ pc = "done"
    /\ out' = [ call |-> "get_highlights", result |-> get_highlights(solution) ]
    /\ solution' = << >>
    /\ UNCHANGED << words, size, use_basic, grid, failed_words, sorted_words,
                    idx, pc, other, attempt, data >>

\* a caller reads the highlights of the constructed puzzle
GetHighlights ==
    /\ pc = "done"
    /\ out' = [ call |-> "get_highlights", result |-> get_highlights(solution) ]
    /\ UNCHANGED << words, size, use_basic, grid, solution, failed_words,
                    sorted_words, idx, pc, other, attempt, data >>

Next == PlaceWord \/ FailWord \/ EndPlacement \/ FillEmptySpaces \/ GetHighlights

Spec == Init /\ [][Next]_vars

\* __init__ is sequential code: while a statement remains, it runs
Construct == PlaceWord \/ FailWord \/ EndPlacement \/ FillEmptySpaces

\* the construction alone, without the calls made on the finished puzzle
SpecConstruct == Init /\ [][Construct]_vars

\* the arguments of the constructions followed to their end
LiveWordLists ==
    { << >>,
      << << "a", "b" >>, << "B", "c" >> >>,
      << << "a", "b", "c" >>, << "A", " ", "b" >> >>,
      << << "c", "-" >>, << "a", "b" >>, << "a", "b" >> >> }

InitLive ==
    /\ words \in LiveWordLists
    /\ size \in { 0, MaxSize }
    /\ use_basic \in BOOLEAN
    /\ grid = create_grid(size)
    /\ solution = << >>
    /\ failed_words = << >>
    /\ sorted_words = SortedWords(words)
    /\ idx = 1
    /\ pc = "place"
    /\ out = NoCall
    /\ other = NoPuzzle
    /\ attempt = 0
    /\ data = NoData

SpecLive == InitLive /\ [][Construct]_vars /\ WF_vars(Construct)

(* --------------- constructions from words that clean to "" ------------ *)

\* word lists holding the empty string or a word of spaces
EmptyWordLists ==
    { << << >> >>,
      << << " " >> >>,
      << << "a", "b" >>, << >> >>,
      << << >>, << " ", " " >> >> }

InitEmpty ==
    /\ words \in EmptyWordLists
    /\ size \in 1 .. MaxSize
    /\ use_basic \in BOOLEAN
    /\ grid = create_grid(size)
    /\ solution = << >>
    /\ failed_words = << >>
    /\ sorted_words = SortedWords(words)
    /\ idx = 1
    /\ pc = "place"
    /\ out = NoCall
    /\ other = NoPuzzle
    /\ attempt = 0
    /\ data = NoData

SpecEmpty == InitEmpty /\ [][Construct]_vars

(* ------------------- parse_solution_entry called alone ---------------- *)

\* the largest absolute value of a delta handed to parse_solution_entry
MaxDelta == 2

\* the deltas a position string may carry, the unit deltas among them
Deltas == (0 - MaxDelta) .. MaxDelta

\* the words handed to parse_solution_entry
EntryWords == { CleanWord(w) : w \in Vocabulary }

\* a constructed puzzle without words; parse_solution_entry is a module
\* function and reads no puzzle
InitFormat ==
    /\ words = << >>
    /\ size = 0
    /\ use_basic = TRUE
    /\ grid = create_grid(0)
    /\ solution = << >>
    /\ failed_words = << >>
    /\ sorted_words = << >>
    /\ idx = 1
    /\ pc = "done"
    /\ out = NoCall
    /\ other = NoPuzzle
    /\ attempt = 0
    /\ data = NoData

\* one call parse_solution_entry(word, "row,col,dr,dc"); the function keeps
\* no state between calls, so a behaviour holds one call
ParseEntry ==
    /\ out = NoCall
    /\ \E word \in EntryWords, row \in 0 .. MaxSize, col \in 0 .. MaxSize,
          dr \in Deltas, dc \in Deltas :
           out' = [ call |-> "parse_solution_entry", word |-> word,
                    row |-> row, col |-> col, dr |-> dr, dc |-> dc,
                    result |-> parse_solution_entry(
                                   word, FormatPos(row, col, dr, dc)) ]
    /\ UNCHANGED << words, size, use_basic, grid, solution, failed_words,
                    sorted_words, idx, pc, other, attempt, data >>

SpecFormat == InitFormat /\ [][ParseEntry]_vars

(* --------------------- two constructions interleaved ------------------ *)

\* the attributes of a WordSearch when __init__ reaches its loop
NewPuzzle(word_list, grid_size, basic) ==
    [ words |-> word_list, size |-> grid_size, use_basic |-> basic,
      grid |-> create_grid(grid_size), solution |-> << >>,
      failed_words |-> << >>, sorted_words |-> SortedWords(word_list),
      idx |-> 1, pc |-> "place" ]

\* the states one step of __init__ can take the puzzle p to: a pass of the
\* loop (placed or not), the end of the loop, or the fill
StepsOf(p) ==
    IF p.pc = "place" /\ p.idx <= Len(p.sorted_words)
    THEN LET word == p.sorted_words[p.idx]
             word_clean == CleanWord(word)
             best == BestPositions(p.grid, p.size, word_clean,
                                   Directions(p.use_basic))
         IN  IF best = << >>
             THEN { [ p EXCEPT !.failed_words = Append(@, word),
                               !.idx = @ + 1 ] }
             ELSE { [ p EXCEPT !.solution = Append(@, SolutionEntry(word_clean, pos)),
                               !.grid = WriteWord(@, word_clean, pos, 0),
                               !.idx = @ + 1 ] : pos \in Range(best) }
    ELSE IF p.pc = "place"
    THEN { [ p EXCEPT !.pc = "fill" ] }
    ELSE IF p.pc = "fill"
    THEN { [ p EXCEPT !.grid = fill_empty_spaces(@, p.size, stream),
                      !.pc = "done" ] : stream \in NoiseStreams }
    ELSE { }

\* the word lists and sizes of the two puzzles
PairWordLists ==
    { << << "a", "b" >>, << "B", "c" >> >>,
      << << "A", " ", "b" >>, << "a", "b", "c" >> >> }

PairSizes == { MaxSize - 1, MaxSize }

InitPair ==
    /\ words \in PairWordLists
    /\ size \in PairSizes
    /\ use_basic = TRUE
    /\ grid = create_grid(size)
    /\ solution = << >>
    /\ failed_words = << >>
    /\ sorted_words = SortedWords(words)
    /\ idx = 1
    /\ pc = "place"
    /\ out = NoCall
    /\ other \in { NewPuzzle(wl, n, FALSE) :
                      wl \in PairWordLists, n \in PairSizes }
    /\ attempt = 0
    /\ data = NoData

\* a step of the second construction whose failed_words is one list shared
\* by all puzzles
OtherStepSharedFailed ==
    /\ other.pc \in { "place", "fill" }
    /\ other' \in StepsOf(other)
    /\ failed_words' = IF Len(other'.failed_words) > Len(other.failed_words)
                       THEN Append(failed_words,
                                   other'.failed_words[Len(other'.failed_words)])
                       ELSE failed_words
    /\ UNCHANGED << words, size, use_basic, grid, solution, sorted_words,
                    idx, pc, out, attempt, data >>

\* one step of the second construction: it works on its own attributes
OtherStep ==
    /\ other.pc \in { "place", "fill" }
    /\ other' \in StepsOf(other)
    /\ UNCHANGED << words, size, use_basic, grid, solution, failed_words,
                    sorted_words, idx, pc, out, attempt, data >>

NextPair ==
    PlaceWord \/ FailWord \/ EndPlacement \/ FillEmptySpaces \/ OtherStep

SpecPair == InitPair /\ [][NextPair]_vars

(* ------------- two constructions from the same arguments ------------- *)

\* the word list and use_basic given to both constructions
TwinArguments ==
    { << << << "a", "b" >>, << "B", "c" >> >>, TRUE >>,
      << << << "a", "b" >>, << "a", "b", "c" >> >>, TRUE >>,
      << << << "a", "b", "c" >>, << "B", "c" >> >>, FALSE >> }

\* WordSearch(title, words, size, use_basic) called twice
InitTwin ==
    /\ \E a \in TwinArguments : words = a[1] /\ use_basic = a[2]
    /\ size = MaxSize
    /\ grid = create_grid(size)
    /\ solution = << >>
    /\ failed_words = << >>
    /\ sorted_words = SortedWords(words)
    /\ idx = 1
    /\ pc = "place"
    /\ out = NoCall
    /\ other = NewPuzzle(words, size, use_basic)
    /\ attempt = 0
    /\ data = NoData

SpecTwin == InitTwin /\ [][NextPair]_vars

(* ------------- the retry loop of generate_big_ws_book.py -------------- *)

\* for attempt in range(5)
MaxAttempts == 5

\* an entry of "words" that is not a string (a JSON number)
NotAString == << "<int>" >>

\* WordSearch.__init__ raises on such a list: the sort key calls w.replace
ConstructorRaises(word_list) ==
    \E k \in DOMAIN word_list : word_list[k] = NotAString

\* the selected_words and the size of the variation
RetryWordLists ==
    { << << "a", "b", "c" >>, << "d", "e", "f" >> >>,
      << << "a", "b", "c", "d" >> >>,
      << << "a", "b" >>, NotAString >> }

RetrySize == MaxSize + 1

\* puzzle = None, before the loop
InitRetry ==
    /\ words \in RetryWordLists
    /\ size = RetrySize
    /\ use_basic = FALSE
    /\ grid = << >>
    /\ solution = << >>
    /\ failed_words = << >>
    /\ sorted_words = << >>
    /\ idx = 1
    /\ pc = "loop"
    /\ out = NoCall
    /\ other = NoPuzzle
    /\ attempt = 0
    /\ data = NoData

\* one more pass of the loop calls generate_puzzle: a new WordSearch starts
\* its construction, or the constructor raises and generate_puzzle returns
\* None
CallGeneratePuzzle ==
    /\ pc = "loop"
    /\ attempt < MaxAttempts
    /\ attempt' = attempt + 1
    /\ solution' = << >>
    /\ failed_words' = << >>
    /\ idx' = 1
    /\ IF ConstructorRaises(words)
       THEN /\ grid' = << >>
            /\ sorted_words' = << >>
            /\ pc' = "none"
       ELSE /\ grid' = create_grid(size)
            /\ sorted_words' = SortedWords(words)
            /\ pc' = "place"
    /\ UNCHANGED << words, size, use_basic, out, other, data >>

\* a loop that gives up after three calls, as its comment says
LoopTestThreeAttempts ==
    /\ pc = "done"
    /\ attempt >= 1
    /\ pc' = IF failed_words = << >> THEN "after"
             ELSE IF attempt < 3 THEN "loop"
             ELSE "after"
    /\ UNCHANGED << words, size, use_basic, grid, solution, failed_words,
                    sorted_words, idx, out, other, attempt, data >>

\* if not puzzle.failed_words: break; else the next pass, if range(5) has one
LoopTest ==
    /\ pc = "done"
    /\ attempt >= 1
    /\ pc' = IF failed_words = << >> THEN "after"
             ELSE IF attempt < MaxAttempts THEN "loop"
             ELSE "after"
    /\ UNCHANGED << words, size, use_basic, grid, solution, failed_words,
                    sorted_words, idx, out, other, attempt, data >>

\* puzzle.failed_words with puzzle = None: AttributeError, caught nowhere
LoopTestOnNone ==
    /\ pc = "none"
    /\ pc' = "crashed"
    /\ UNCHANGED << words, size, use_basic, grid, solution, failed_words,
                    sorted_words, idx, out, other, attempt, data >>

\* after the loop the puzzle is a WordSearch (the test "puzzle is None" is
\* false) and goes to puzzles and solutions
AfterLoop ==
    /\ pc = "after"
    /\ pc' = "kept"
    /\ UNCHANGED << words, size, use_basic, grid, solution, failed_words,
                    sorted_words, idx, out, other, attempt, data >>

NextRetry ==
    \/ CallGeneratePuzzle
    \/ PlaceWord
    \/ FailWord
    \/ EndPlacement
    \/ FillEmptySpaces
    \/ LoopTest
    \/ LoopTestOnNone
    \/ AfterLoop

SpecRetry == InitRetry /\ [][NextRetry]_vars

(* ======================== properties of the puzzle ==================== *)

InGrid(n, r, c) == 0 <= r /\ r < n /\ 0 <= c /\ c < n

\* the cells of a record, walked from its start along its delta, lie in the
\* grid and spell the word
ReadsAt(g, n, word, p) ==
    \A i \in 0 .. (Len(word) - 1) :
        /\ InGrid(n, p.row + p.dr * i, p.col + p.dc * i)
        /\ Cell(g, p.row + p.dr * i, p.col + p.dc * i) = word[i + 1]

RecordPos(j) == ParsePos(solution[j].pos_str)

RecordReads(j) == ReadsAt(grid, size, solution[j].word, RecordPos(j))

\* the cells record j covers
RecordCells(j) ==
    { << RecordPos(j).row + RecordPos(j).dr * i, RecordPos(j).col + RecordPos(j).dc * i >> :
        i \in 0 .. (Len(solution[j].word) - 1) }

\* C1: once construction is complete, every input word that is not in
\* failed_words has a record keyed by its cleaned form whose walk from the
\* recorded start along the recorded delta reads the cleaned word in the grid.
C1_PlacementConsistency ==
    pc = "done" =>
        \A i \in DOMAIN words :
            (~ \E k \in DOMAIN failed_words : failed_words[k] = words[i]) =>
                \E j \in DOMAIN solution :
                    /\ solution[j].word = CleanWord(words[i])
                    /\ RecordReads(j)

\* a complete puzzle with two records that cross (share a cell), one of them
\* running against the reading direction, and noise around them
C1_Witness ==
    /\ pc = "done"
    /\ Len(solution) = 2
    /\ failed_words = << >>
    /\ solution[1].word # solution[2].word
    /\ RecordCells(1) \cap RecordCells(2) # { }
    /\ RecordPos(2).dc = 0 - 1
    /\ \E rc \in PyRange(size) \X PyRange(size) :
            rc \notin RecordCells(1) \cup RecordCells(2)

\* C2: a placement attempt that fails leaves the grid and the solution list
\* as they were, and every record still reads its word.
C2_FailedAttemptLeavesGrid ==
    [][ failed_words' # failed_words =>
            /\ grid' = grid
            /\ solution' = solution
            /\ \A j \in DOMAIN solution :
                    ReadsAt(grid', size, solution[j].word, RecordPos(j)) ]_vars

\* a word that would fit an empty grid has failed on a grid that holds
\* another word
C2_Witness ==
    /\ solution # << >>
    /\ \E k \in DOMAIN failed_words :
            /\ Len(CleanWord(failed_words[k])) >= 1
            /\ Len(CleanWord(failed_words[k])) <= size

\* C3: a complete puzzle of size N > 0 has N rows of N cells, each cell one
\* of the letters A-Z.
C3_GridShapeAndLetters ==
    (pc = "done" /\ size > 0) =>
        /\ Len(grid) = size
        /\ \A r \in DOMAIN grid :
                /\ Len(grid[r]) = size
                /\ \A c \in DOMAIN grid[r] : grid[r][c] \in Range(AsciiUppercase)

\* C4: once construction is complete no cell holds the blank.
C4_NoBlankAfterFill ==
    pc = "done" => \A r \in DOMAIN grid : \A c \in DOMAIN grid[r] : grid[r][c] # Blank

\* a complete puzzle with a placed word, a failed word and cells left to the
\* fill, the last cell of the grid among them
C4_Witness ==
    /\ pc = "done"
    /\ size >= 2
    /\ Len(solution) = 1
    /\ Len(failed_words) = 1
    /\ << size - 1, size - 1 >> \notin RecordCells(1)

\* C5: the start cell and the computed end cell of every record lie in the
\* grid.
C5_RecordBounds ==
    \A j \in DOMAIN solution :
        LET p == RecordPos(j)
            L == Len(solution[j].word)
        IN  /\ InGrid(size, p.row, p.col)
            /\ InGrid(size, p.row + p.dr * (L - 1), p.col + p.dc * (L - 1))

\* a record that runs up and to the left from the last cell of the grid to
\* the first
C5_Witness ==
    \E j \in DOMAIN solution :
        /\ RecordPos(j).dr = 0 - 1
        /\ RecordPos(j).dc = 0 - 1
        /\ RecordPos(j).row = size - 1
        /\ RecordPos(j).col = size - 1
        /\ Len(solution[j].word) = size

BasicNames ==
    { "horizontal_left_to_right", "vertical_top_to_bottom",
      "diagonal_top_left_to_bottom_right" }

\* C6: in basic mode every record's delta is right, down or down-right, and
\* so is the direction of every highlight.
C6_BasicDirectionsOnly ==
    use_basic =>
        \A j \in DOMAIN solution :
            /\ << RecordPos(j).dr, RecordPos(j).dc >> \in { <<0, 1>>, <<1, 0>>, <<1, 1>> }
            /\ get_highlights(solution)[j].direction \in BasicNames

\* a complete basic-mode puzzle whose two records run in two of the basic
\* directions, one of them down
C6_Witness ==
    /\ use_basic
    /\ pc = "done"
    /\ Len(solution) = 2
    /\ get_highlights(solution)[1].direction # get_highlights(solution)[2].direction
    /\ get_highlights(solution)[2].direction = "vertical_top_to_bottom"

CleanLen(w) == Len(CleanWord(w))

\* the number of entries of seq that satisfy Test
Count(seq, Test(_)) == Cardinality({ k \in DOMAIN seq : Test(seq[k]) })

\* the entries of sorted_words the loop has taken
Attempted == SubSeq(sorted_words, 1, idx - 1)

\* C7: a word whose cleaned length exceeds the grid size is never placed:
\* each attempt of it adds it to failed_words, and no record is made for it.
C7_OversizedNeverPlaced ==
    /\ \A j \in DOMAIN solution : Len(solution[j].word) <= size
    /\ \A k \in DOMAIN Attempted :
            CleanLen(Attempted[k]) > size =>
                LET Same(w) == w = Attempted[k]
                IN  Count(failed_words, Same) = Count(Attempted, Same)

\* an oversized word has failed in a puzzle that placed another word, in the
\* advanced mode
C7_Witness ==
    /\ pc = "done"
    /\ ~use_basic
    /\ size >= 2
    /\ solution # << >>
    /\ \E k \in DOMAIN failed_words : CleanLen(failed_words[k]) > size

\* the entries of seq at the indices mask marks with b, in their order
RECURSIVE Marked(_, _, _, _)
Marked(seq, mask, b, k) ==
    IF k > Len(seq) THEN << >>
    ELSE (IF mask[k] = b THEN << seq[k] >> ELSE << >>) \o Marked(seq, mask, b, k + 1)

NonIncreasing(lens) == \A k \in DOMAIN lens : \A l \in DOMAIN lens : k < l => lens[k] >= lens[l]

\* C8: the words are attempted by cleaned length, longest first, words of
\* equal cleaned length in their input order; the records and the failed
\* words appear in the order of the attempts, their lengths never increasing.
C8_LongestFirstStable ==
    /\ Len(sorted_words) = Len(words)
    /\ \E pi \in [ DOMAIN words -> DOMAIN words ] :
            /\ \A k \in DOMAIN words : sorted_words[k] = words[pi[k]]
            /\ \A k \in DOMAIN words : \A l \in DOMAIN words :
                    k < l => \/ CleanLen(sorted_words[k]) > CleanLen(sorted_words[l])
                             \/ /\ CleanLen(sorted_words[k]) = CleanLen(sorted_words[l])
                                /\ pi[k] < pi[l]
    /\ \E mask \in [ DOMAIN Attempted -> BOOLEAN ] :
            /\ failed_words = Marked(Attempted, mask, FALSE, 1)
            /\ \E placed \in { Marked(Attempted, mask, TRUE, 1) } :
                  [ j \in DOMAIN solution |-> solution[j].word ]
                      = [ k \in DOMAIN placed |-> CleanWord(placed[k]) ]
    /\ NonIncreasing([ j \in DOMAIN solution |-> Len(solution[j].word) ])
    /\ NonIncreasing([ k \in DOMAIN failed_words |-> CleanLen(failed_words[k]) ])

\* the second input word is the longer one and was attempted first; both
\* attempts are over and the shorter word has its record
C8_Witness ==
    /\ pc = "done"
    /\ size >= 2
    /\ Len(words) = 2
    /\ CleanLen(words[1]) < CleanLen(words[2])
    /\ sorted_words = << words[2], words[1] >>
    /\ Len(solution) = 1
    /\ solution[1].word = CleanWord(words[1])

\* C9: every entry of word_list is attempted once; an attempt adds either one
\* record or the original word to failed_words, so that at the end
\* len(solution) + len(failed_words) = len(word_list), and no more records
\* carry a cleaned word than input entries clean to it.
C9_OneOutcomePerWord ==
    /\ idx - 1 = Len(solution) + Len(failed_words)
    /\ idx - 1 <= Len(words)
    /\ pc \in { "fill", "done" } => Len(solution) + Len(failed_words) = Len(words)
    /\ \A k \in DOMAIN failed_words :
            LET Same(w) == w = failed_words[k]
            IN  Count(failed_words, Same) <= Count(words, Same)
    /\ \A clean \in { CleanWord(Attempted[k]) : k \in DOMAIN Attempted } :
            LET SameClean(w) == CleanWord(w) = clean
                SameRecord(e) == e.word = clean
            IN  Count(solution, SameRecord) + Count(failed_words, SameClean)
                    = Count(Attempted, SameClean)
    /\ \A clean \in { solution[j].word : j \in DOMAIN solution } :
            LET SameClean(w) == CleanWord(w) = clean
                SameRecord(e) == e.word = clean
            IN  Count(solution, SameRecord) <= Count(words, SameClean)

\* a complete puzzle with one record and, in failed_words, a word whose
\* original differs from its cleaned form
C9_Witness ==
    /\ pc = "done"
    /\ Len(solution) = 1
    /\ Len(failed_words) = 1
    /\ CleanLen(failed_words[1]) < Len(failed_words[1])
    /\ CleanLen(failed_words[1]) <= size

\* every (start, direction) the search goes through
Candidates(n, directions) ==
    { [ row |-> r, col |-> c, dr |-> d[1], dc |-> d[2] ] :
        r \in PyRange(n), c \in PyRange(n), d \in Range(directions) }

\* the end cell lies in the grid and every cell walked is blank or holds the
\* letter of the word
Feasible(g, n, word, p) ==
    /\ InGrid(n, p.row + p.dr * (Len(word) - 1), p.col + p.dc * (Len(word) - 1))
    /\ \A i \in 0 .. (Len(word) - 1) :
            Cell(g, p.row + p.dr * i, p.col + p.dc * i) \in { Blank, word[i + 1] }

\* the cells walked that hold the letter of the word already
OverlapOf(g, word, p) ==
    Cardinality({ i \in 0 .. (Len(word) - 1) :
                    Cell(g, p.row + p.dr * i, p.col + p.dc * i) = word[i + 1] })

FeasibleSet(g, n, word, directions) ==
    { p \in Candidates(n, directions) : Feasible(g, n, word, p) }

MaxOverlapSet(g, n, word, directions) ==
    LET F == FeasibleSet(g, n, word, directions)
    IN  { p \in F : \A q \in F : OverlapOf(g, word, q) <= OverlapOf(g, word, p) }

\* the word the next pass of the loop takes, cleaned
PendingWord == CleanWord(sorted_words[idx])

Pending == pc = "place" /\ idx <= Len(sorted_words)

\* C10: the positions the choice is made among are the feasible candidates
\* of maximum overlap, all of them, each once (PlaceWord chooses any entry
\* of best_positions); a word that has a feasible candidate is placed, and
\* the record made is one of the candidates of maximum overlap.
C10_ChoiceAmongAllBest ==
    [][ Pending =>
          LET best == BestPositions(grid, size, PendingWord, Directions(use_basic))
              M == MaxOverlapSet(grid, size, PendingWord, Directions(use_basic))
          IN  /\ Range(best) = M
              /\ Len(best) = Cardinality(M)
              /\ (M # { }) = (solution' # solution)
              /\ solution' # solution =>
                    /\ solution' = Append(solution, solution'[Len(solution')])
                    /\ solution'[Len(solution')].word = PendingWord
                    /\ ParsePos(solution'[Len(solution')].pos_str) \in M ]_vars

\* a word is about to be placed that has several candidates of the maximum
\* overlap, which is not zero, and feasible candidates of less overlap
C10_Witness ==
    /\ Pending
    /\ LET M == MaxOverlapSet(grid, size, PendingWord, Directions(use_basic))
           F == FeasibleSet(grid, size, PendingWord, Directions(use_basic))
       IN  /\ Cardinality(M) >= 2
           /\ \E p \in M : OverlapOf(grid, PendingWord, p) >= 1
           /\ F # M

\* C11: an attempt fails exactly when the word has no feasible candidate
\* among all start cells and all allowed directions; a word that has one is
\* placed and is not added to failed_words.
C11_FailsIffNoFeasible ==
    [][ Pending =>
          LET F == FeasibleSet(grid, size, PendingWord, Directions(use_basic))
          IN  /\ (F = { }) = (failed_words' = Append(failed_words, sorted_words[idx]))
              /\ F # { } =>
                    /\ failed_words' = failed_words
                    /\ Len(solution') = Len(solution) + 1
                    /\ solution'[Len(solution')].word = PendingWord ]_vars

\* a word is about to be attempted on a grid that holds another word and
\* leaves it exactly one feasible candidate
C11_Witness ==
    /\ Pending
    /\ solution # << >>
    /\ Cardinality(FeasibleSet(grid, size, PendingWord, Directions(use_basic))) = 1

\* C12: while the words are placed, a cell that holds a letter keeps it: a
\* placement writes only into cells that are blank or hold the same letter.
C12_LettersNeverOverwritten ==
    [][ pc = "place" =>
          /\ DOMAIN grid' = DOMAIN grid
          /\ \A r \in DOMAIN grid :
                /\ DOMAIN grid'[r] = DOMAIN grid[r]
                /\ \A c \in DOMAIN grid[r] :
                      grid[r][c] # Blank => grid'[r][c] = grid[r][c] ]_vars

\* the loop has placed two different words that cross in a cell
C12_Witness ==
    /\ pc = "place"
    /\ Len(solution) = 2
    /\ solution[1].word # solution[2].word
    /\ Cardinality(RecordCells(1) \cap RecordCells(2)) = 1

\* C13: the fill changes only cells that hold the blank; the letters placed,
\* the solution and failed_words are as before it.
C13_FillTouchesOnlyBlanks ==
    [][ pc = "fill" =>
          /\ solution' = solution
          /\ failed_words' = failed_words
          /\ DOMAIN grid' = DOMAIN grid
          /\ \A r \in DOMAIN grid :
                /\ DOMAIN grid'[r] = DOMAIN grid[r]
                /\ \A c \in DOMAIN grid[r] :
                      grid[r][c] # Blank => grid'[r][c] = grid[r][c] ]_vars

\* the fill is about to run on a grid that holds a placed word and blanks,
\* after another word has failed
C13_Witness ==
    /\ pc = "fill"
    /\ solution # << >>
    /\ failed_words # << >>
    /\ \E r \in DOMAIN grid : \E c \in DOMAIN grid[r] : grid[r][c] = Blank
    /\ \E r \in DOMAIN grid : \E c \in DOMAIN grid[r] : grid[r][c] # Blank

\* the table of the eight unit deltas and their canonical strings
CanonicalTable ==
    { << 0, 1, "horizontal_left_to_right" >>,
      << 0, 0 - 1, "horizontal_right_to_left" >>,
      << 1, 0, "vertical_top_to_bottom" >>,
      << 0 - 1, 0, "vertical_bottom_to_top" >>,
      << 1, 1, "diagonal_top_left_to_bottom_right" >>,
      << 0 - 1, 1, "diagonal_bottom_left_to_top_right" >>,
      << 1, 0 - 1, "diagonal_top_right_to_bottom_left" >>,
      << 0 - 1, 0 - 1, "diagonal_bottom_right_to_top_left" >> }

\* the direction parse_solution_entry gives to the deltas dr, dc, through
\* the position string
ParsedName(dr, dc) ==
    parse_solution_entry(<< "A" >>, FormatPos(0, 0, dr, dc)).direction

C15_HighlightsPure ==
    [][ pc = "done" =>
          /\ grid' = grid
          /\ solution' = solution
          /\ failed_words' = failed_words
          /\ words' = words
          /\ pc' = "done"
          /\ out'.call = "get_highlights"
          /\ out'.result = get_highlights(solution)
          /\ out.call = "get_highlights" => out'.result = out.result ]_vars

C15_Witness ==
    /\ pc = "done"
    /\ out.call = "get_highlights"
    /\ Len(out.result) = 2
    /\ failed_words = << >>

\* C16: get_highlights returns one highlight per placement record, in the
\* order of the records, with the record's cleaned word, its (row, col) as
\* start and the cleaned word's length; their number is the number of words
\* placed.
C16_HighlightPerRecord ==
    out.call = "get_highlights" =>
        /\ Len(out.result) = Len(solution)
        /\ Len(out.result) = Len(words) - Len(failed_words)
        /\ \A j \in DOMAIN solution :
              LET h == out.result[j]
              IN  /\ h.word = solution[j].word
                  /\ h.length = Len(solution[j].word)
                  /\ Len(h.start) = 2
                  /\ \E dr \in {0 - 1, 0, 1}, dc \in {0 - 1, 0, 1} :
                        solution[j].pos_str
                            = FormatPos(h.start[1], h.start[2], dr, dc)
                  /\ InGrid(size, h.start[1], h.start[2])
                  /\ grid[h.start[1] + 1][h.start[2] + 1] = solution[j].word[1]

C16_Witness ==
    /\ out.call = "get_highlights"
    /\ Len(out.result) = 2
    /\ out.result[1].word # out.result[2].word
    /\ out.result[1].start[1] # out.result[1].start[2]

\* C17: a construction with a size of 0 or less stops before it attempts a
\* word, fills or completes.
C17_NonPositiveSizeFailsFast ==
    size <= 0 => /\ pc = "place"
                 /\ idx = 1
                 /\ failed_words = << >>

\* C18: a construction with an empty word list stops before it fills or
\* completes; no puzzle is generated from it.
C18_EmptyListFailsFast ==
    words = << >> => /\ pc # "fill"
                     /\ pc # "done"

\* C19: nothing is deduplicated. Every entry of word_list is in sorted_words
\* as often as in word_list; entries that clean to the same string are
\* attempted one by one, and each ends as a record of its own or as its
\* original string in failed_words, so that two records may carry the same
\* cleaned word.
C19_NoDeduplication ==
    /\ Len(sorted_words) = Len(words)
    /\ \A k \in DOMAIN words :
            LET Same(w) == w = words[k]
            IN  Count(sorted_words, Same) = Count(words, Same)
    /\ \A k \in DOMAIN failed_words : failed_words[k] \in Range(words)
    /\ \A clean \in { CleanWord(words[k]) : k \in DOMAIN words } :
            LET SameClean(w) == CleanWord(w) = clean
                SameRecord(e) == e.word = clean
            IN  /\ Count(solution, SameRecord) + Count(failed_words, SameClean)
                       = Count(Attempted, SameClean)
                /\ pc \in { "fill", "done" } =>
                       Count(Attempted, SameClean) = Count(words, SameClean)

\* a complete puzzle whose two records carry one cleaned word, from two
\* entries of word_list that differ
C19_Witness ==
    /\ pc = "done"
    /\ Len(words) = 2
    /\ words[1] # words[2]
    /\ Len(solution) = 2
    /\ solution[1].word = solution[2].word

\* the first puzzle as a record of its attributes
MainPuzzle ==
    [ words |-> words, size |-> size, use_basic |-> use_basic, grid |-> grid,
      solution |-> solution, failed_words |-> failed_words,
      sorted_words |-> sorted_words, idx |-> idx, pc |-> pc ]

\* C20: with two constructions interleaved pass by pass, a step of one leaves
\* the grid, solution and failed_words (and every other attribute) of the
\* other as they are, and is a step the puzzle could take running alone; so
\* each construction passes through, and ends in, states of a sequential run.
C20_InstancesIndependent ==
    [][ /\ other' # other =>
              /\ MainPuzzle' = MainPuzzle
              /\ other' \in StepsOf(other)
        /\ MainPuzzle' # MainPuzzle =>
              /\ other' = other
              /\ MainPuzzle' \in StepsOf(MainPuzzle) ]_vars

\* both constructions are between two passes of their loops, the first has
\* placed a word and the second has failed one
C20_Witness ==
    /\ pc = "place"
    /\ idx = 2
    /\ solution # << >>
    /\ other.pc = "place"
    /\ other.idx = 2
    /\ other.failed_words # << >>

\* the eight canonical direction strings
CanonicalNames == { t[3] : t \in CanonicalTable }

C23_SamePartition ==
    (pc = "done" /\ other.pc = "done") => failed_words = other.failed_words

\* C23 as amended: two constructions from the same arguments attempt the same
\* words in the same order, agree on the outcome of the first word attempted
\* and on the failure of every word longer than the grid, and each accounts
\* for every word once; the partition of the other words may differ.
C23_SameStructure ==
    /\ sorted_words = other.sorted_words
    /\ (idx = 2 /\ other.idx = 2) => failed_words = other.failed_words
    /\ (pc = "done" /\ other.pc = "done") =>
          /\ Len(solution) + Len(failed_words) = Len(words)
          /\ Len(other.solution) + Len(other.failed_words) = Len(words)
          /\ \A k \in DOMAIN words :
                CleanLen(words[k]) > size =>
                    LET Same(w) == w = words[k]
                    IN  /\ Count(failed_words, Same) = Count(words, Same)
                        /\ Count(other.failed_words, Same) = Count(words, Same)

\* both constructions are complete, both failed the oversized word, and they
\* placed the other word at different positions
C23_Witness ==
    /\ pc = "done"
    /\ other.pc = "done"
    /\ failed_words # << >>
    /\ failed_words = other.failed_words
    /\ Len(solution) = 1
    /\ Len(other.solution) = 1
    /\ solution[1].pos_str # other.solution[1].pos_str

\* C24: every construction reaches the completed state; each pass of the loop
\* moves to the next word (no word is tried twice, the index never goes
\* back), one fill follows the last pass, and the completed puzzle has had
\* one attempt per word.
C24_Terminates ==
    /\ <>(pc = "done")
    /\ [][ /\ (pc = "place" /\ idx <= Len(sorted_words)) =>
                  (idx' = idx + 1 /\ pc' = "place")
           /\ (pc = "place" /\ idx > Len(sorted_words)) =>
                  (idx' = idx /\ pc' = "fill")
           /\ pc = "fill" => (idx' = idx /\ pc' = "done")
           /\ pc = "done" => pc' = "done" ]_vars
    /\ [](pc = "done" =>
              /\ idx = Len(words) + 1
              /\ Len(solution) + Len(failed_words) = Len(words))

\* a completed construction of two words, one placed and one failed
C24_Witness ==
    /\ pc = "done"
    /\ Len(words) = 2
    /\ Len(solution) = 1
    /\ Len(failed_words) = 1
    /\ idx = 3

\* the number of cells of g that hold the blank
BlankCount(g) ==
    Cardinality({ rc \in (DOMAIN g) \X (DOMAIN g) : g[rc[1]][rc[2]] = Blank })

\* C25: a pass that places a word of cleaned length L walks L distinct cells;
\* with k the overlap of the position chosen, which is the greatest overlap of
\* a feasible candidate, it turns L - k blank cells into letters, those of the
\* walk, and changes no other cell.
C25_BlanksDropByLMinusK ==
    [][ (Pending /\ Len(solution') = Len(solution) + 1) =>
          \A word \in { PendingWord } :
          \A p \in { ParsePos(solution'[Len(solution')].pos_str) } :
          \A k \in { OverlapOf(grid, word, p) } :
          \A cells \in { { << p.row + p.dr * i + 1, p.col + p.dc * i + 1 >> :
                              i \in 0 .. (Len(word) - 1) } } :
              /\ Cardinality(cells) = Len(word)
              /\ \A q \in FeasibleSet(grid, size, word, Directions(use_basic)) :
                     OverlapOf(grid, word, q) <= k
              /\ BlankCount(grid) - BlankCount(grid') = Len(word) - k
              /\ \A rc \in (DOMAIN grid) \X (DOMAIN grid) :
                     IF rc \in cells /\ grid[rc[1]][rc[2]] = Blank
                     THEN grid'[rc[1]][rc[2]] # Blank
                     ELSE grid'[rc[1]][rc[2]] = grid[rc[1]][rc[2]] ]_vars

\* two words are placed in a grid of four cells, the second over one letter
\* of the first: one blank cell is left
C25_Witness ==
    /\ pc = "place"
    /\ size = 2
    /\ Len(solution) = 2
    /\ Len(solution[1].word) = 2
    /\ Len(solution[2].word) = 2
    /\ BlankCount(grid) = 1

(* ------------------- validate_books.validate_json_data ------------------ *)

MaxPuzzles == 2

\* parsed JSON values, tagged with their Python type; a key an object lacks
\* holds Absent
Absent == NoData
Num(n) == [ t |-> "num", v |-> n ]
Str(s) == [ t |-> "str", v |-> s ]
List(xs) == [ t |-> "list", v |-> xs ]

\* the list of errors so far, and the exception that ended the call, if any
Add(acc, text, i, detail) ==
    [ acc EXCEPT !.errors = Append(@, [ text |-> text, index |-> i, detail |-> detail ]) ]

Raise(acc, exc) == [ acc EXCEPT !.raised = exc ]

HexDigits ==
    { "0", "1", "2", "3", "4", "5", "6", "7", "8", "9",
      "a", "b", "c", "d", "e", "f", "A", "B", "C", "D", "E", "F" }

\* ''.join([c*2 for c in hex_digits])
Doubled(hex_digits) ==
    [ k \in 1 .. (2 * Len(hex_digits)) |-> hex_digits[(k + 1) \div 2] ]

\* the rule on 'color' of a file of version >= 1.0
CheckColor(color, acc) ==
    IF color.t = "absent"
    THEN Add(acc, "Missing 'color' key for version >= 1.0.", 0 - 1, << >>)
    ELSE IF \/ color.t # "str"
            \/ color.v = << >>
            \/ color.v[1] # "#"
            \/ Len(color.v) \notin { 4, 7 }
         THEN Add(acc, "'color' is not a valid hex color code.", 0 - 1, << >>)
         ELSE LET tail == SubSeq(color.v, 2, Len(color.v))
                  hex_digits == IF Len(tail) = 3 THEN Doubled(tail) ELSE tail
              IN  IF \A k \in DOMAIN hex_digits : hex_digits[k] \in HexDigits
                  THEN acc
                  ELSE Add(acc, "'color' contains invalid hex digits.", 0 - 1, << >>)

\* what iterating puzzle['words'] yields: the items of a list, the
\* characters of a string
Items(ws) ==
    IF ws.t = "list" THEN ws.v
    ELSE [ k \in 1 .. Len(ws.v) |-> Str(<< ws.v[k] >>) ]

\* the rules on 'words' of puzzle i; len() of a number raises TypeError, and
\* so does ', '.join over repeated items that are not strings
CheckWords(ws, i, acc) ==
    IF ws.t = "absent"
    THEN Add(acc, "Puzzle missing 'words' key.", i, << >>)
    ELSE LET a1 == IF ws.t # "list"
                   THEN Add(acc, "'words' in puzzle is not a list.", i, << >>)
                   ELSE acc
         IN  IF ws.t \notin { "list", "str" } THEN Raise(a1, "TypeError")
             ELSE LET items == Items(ws)
                      repeated == { w \in Range(items) :
                                      Cardinality({ k \in DOMAIN items : items[k] = w }) > 1 }
                  IN  IF Len(items) = Cardinality(Range(items)) THEN a1
                      ELSE IF \E w \in repeated : w.t # "str"
                           THEN Raise(a1, "TypeError")
                           ELSE Add(a1, "'words' in puzzle contains duplicate words.",
                                    i, repeated)

\* the rules on 'size' of puzzle i
CheckSize(sz, i, acc) ==
    IF sz.t = "absent" THEN Add(acc, "Puzzle missing 'size' key.", i, << >>)
    ELSE IF sz.t # "num" THEN Add(acc, "'size' in puzzle is not an integer.", i, << >>)
    ELSE acc

\* the loop over the words of puzzle i from item k on: word.replace raises
\* AttributeError on an item that is not a string, and the comparison with
\* a size that is not a number raises TypeError
RECURSIVE CheckFit(_, _, _, _, _)
CheckFit(items, sz, i, k, acc) ==
    IF k > Len(items) THEN acc
    ELSE IF items[k].t # "str" THEN Raise(acc, "AttributeError")
    ELSE IF sz.t # "num" THEN Raise(acc, "TypeError")
    ELSE CHOOSE r \in { CheckFit(items, sz, i, k + 1, a) :
                          a \in { IF Len(RemoveSpaces(items[k].v)) > sz.v
                                  THEN Add(acc, "Word exceeds puzzle size.", i,
                                           << RemoveSpaces(items[k].v), sz.v >>)
                                  ELSE acc } } : TRUE

\* one pass of the loop over data['puzzles']
CheckPuzzle(puzzle, i, acc) ==
    IF puzzle.t # "obj" THEN Add(acc, "Puzzle is not an object.", i, << >>)
    ELSE LET a1 == CheckWords(puzzle.words, i, acc)
         IN  IF a1.raised # "none" THEN a1
             ELSE LET a2 == CheckSize(puzzle.size, i, a1)
                  IN  IF puzzle.words.t # "absent" /\ puzzle.size.t # "absent"
                      THEN CheckFit(Items(puzzle.words), puzzle.size, i, 1, a2)
                      ELSE a2

\* the loop over data['puzzles'], which an exception leaves
RECURSIVE CheckPuzzles(_, _, _)
CheckPuzzles(ps, k, acc) ==
    IF k > Len(ps) \/ acc.raised # "none" THEN acc
    ELSE CHOOSE r \in { CheckPuzzles(ps, k + 1, a) :
                          a \in { CheckPuzzle(ps[k], k - 1, acc) } } : TRUE

\* validate_json_data(data, file_path): the errors it returns, or the
\* exception it raises (the block under show_info only prints, and runs
\* only when errors is empty)
validate_json_data(d) ==
    IF d.t # "obj"
    THEN [ errors |-> << [ text |-> "Root element is not a JSON object.",
                           index |-> 0 - 1, detail |-> << >> ] >>,
           raised |-> "none" ]
    ELSE LET a0 == [ errors |-> << >>, raised |-> "none" ]
             a1 == IF d.version.t \notin { "num", "absent" }
                   THEN Add(a0, "'version' is not a number.", 0 - 1, << >>)
                   ELSE a0
             a2 == IF d.title.t = "absent"
                   THEN Add(a1, "Missing 'title' key.", 0 - 1, << >>)
                   ELSE a1
             a3 == IF d.puzzles.t = "absent"
                   THEN Add(a2, "Missing 'puzzles' key.", 0 - 1, << >>)
                   ELSE a2
         IN  IF d.version.t \notin { "num", "absent" } THEN Raise(a3, "TypeError")
             ELSE LET version == IF d.version.t = "absent" THEN 0 ELSE d.version.v
                      a4 == IF version >= 1 THEN CheckColor(d.color, a3) ELSE a3
                  IN  IF d.puzzles.t = "absent" THEN a4
                      ELSE IF d.puzzles.t # "list"
                           THEN Add(a4, "'puzzles' is not a list.", 0 - 1, << >>)
                           ELSE CheckPuzzles(d.puzzles.v, 1, a4)

\* the values of the fields of a book file
JsonVersions == { Absent, Num(0), Num(1), Str(<< "1", ".", "0" >>) }

JsonTitles == { Absent, Str(<< "T" >>) }

JsonColors == { Absent, Str(<< "#", "0", "a", "F" >>), Str(<< "#", "0", "g", "0" >>), Num(5) }

JsonWords ==
    { Absent, Num(5), Str(<< "a", "a" >>),
      List(<< Str(<< "a", "b" >>) >>),
      List(<< Str(<< "a", "b" >>), Str(<< "a", "b" >>) >>),
      List(<< Str(<< "a", " ", "b" >>), Str(<< "a", "b", "c" >>) >>),
      List(<< Str(<< "a", "b" >>), Num(1) >>) }

JsonSizes == { Absent, Num(2), Str(<< "2" >>) }

JsonPuzzle ==
    { Num(5) } \cup { [ t |-> "obj", words |-> ws, size |-> sz ] :
                        ws \in JsonWords, sz \in JsonSizes }

JsonPuzzles ==
    { Absent, Num(5) } \cup
    { List(ps) : ps \in UNION { [ 1 .. n -> JsonPuzzle ] : n \in 0 .. MaxPuzzles } }

JsonValues ==
    { Num(5) } \cup
    { [ t |-> "obj", version |-> v, title |-> ti, color |-> c, puzzles |-> ps ] :
        v \in JsonVersions, ti \in JsonTitles, c \in JsonColors, ps \in JsonPuzzles }

\* a parsed book file, not yet validated
InitValidate ==
    /\ words = << >>
    /\ size = 0
    /\ use_basic = TRUE
    /\ grid = create_grid(0)
    /\ solution = << >>
    /\ failed_words = << >>
    /\ sorted_words = << >>
    /\ idx = 1
    /\ pc = "done"
    /\ out = NoCall
    /\ other = NoPuzzle
    /\ attempt = 0
    /\ data \in JsonValues

\* main(): errors = validate_json_data(data, file_path), once per file
ValidateJsonData ==
    /\ out = NoCall
    /\ out' = [ call |-> "validate_json_data", result |-> validate_json_data(data) ]
    /\ UNCHANGED << words, size, use_basic, grid, solution, failed_words,
                    sorted_words, idx, pc, other, attempt, data >>

SpecValidate == InitValidate /\ [][ValidateJsonData]_vars

\* the first word attempted has a cleaned length between 1 and the size
FirstFits ==
    /\ sorted_words # << >>
    /\ 1 <= CleanLen(sorted_words[1])
    /\ CleanLen(sorted_words[1]) <= size

\* the greatest cleaned length of the input words
LongestLen == CleanLen(sorted_words[1])

\* C26 as claimed: the first word attempted is placed when its cleaned length
\* is between 1 and the size, and a word of the greatest cleaned length is in
\* failed_words only if it is longer than the size or empty.
C26_LongestNeverFails ==
    /\ (idx >= 2 /\ FirstFits) =>
          (solution # << >> /\ solution[1].word = CleanWord(sorted_words[1]))
    /\ \A k \in DOMAIN failed_words :
          CleanLen(failed_words[k]) = LongestLen =>
              (CleanLen(failed_words[k]) > size \/ CleanLen(failed_words[k]) = 0)

\* C26 as amended: the first word attempted is placed when its cleaned length
\* is between 1 and the size, in both modes; after that first pass
\* failed_words is empty, and the first record stays the record of that word.
\* (Another word of the same cleaned length can still fail.)
C26_FirstWordPlaced ==
    (idx >= 2 /\ FirstFits) =>
        /\ solution # << >>
        /\ solution[1].word = CleanWord(sorted_words[1])
        /\ Len(solution) + Len(failed_words) = idx - 1
        /\ idx = 2 => failed_words = << >>

\* the first word, as long as the grid is wide, is placed and the second, of
\* the same cleaned length, has failed
C26_Witness ==
    /\ pc = "done"
    /\ FirstFits
    /\ LongestLen = size
    /\ Len(solution) = 1
    /\ Len(failed_words) = 1
    /\ CleanLen(failed_words[1]) = LongestLen

\* the candidates along which the grid spells the pending word already
SpelledAt ==
    { p \in Candidates(size, Directions(use_basic)) : ReadsAt(grid, size, PendingWord, p) }

C28_NoneSkippedWithoutCrash ==
    /\ pc # "crashed"
    /\ (pc = "none" => (ConstructorRaises(words) /\ solution = << >> /\ grid = << >>))

\* the value validated has a malformed field: a 'version' that is not a
\* number, a 'words' that is not a list, a puzzle that is not an object
Malformed(d) ==
    /\ d.t = "obj"
    /\ \/ d.version.t \notin { "num", "absent" }
       \/ /\ d.puzzles.t = "list"
          /\ \E k \in DOMAIN d.puzzles.v :
                \/ d.puzzles.v[k].t # "obj"
                \/ d.puzzles.v[k].words.t \notin { "list", "absent" }

\* a puzzle of the file has a repeated word, or a word longer than its size
\* once its spaces are taken out
HasDuplicateOrOversized(d) ==
    /\ d.t = "obj"
    /\ d.puzzles.t = "list"
    /\ \E k \in DOMAIN d.puzzles.v :
          \A p \in { d.puzzles.v[k] } :
            /\ p.t = "obj"
            /\ p.words.t = "list"
            /\ \/ \E a, b \in DOMAIN p.words.v : a # b /\ p.words.v[a] = p.words.v[b]
               \/ /\ p.size.t = "num"
                  /\ \E a \in DOMAIN p.words.v :
                        /\ p.words.v[a].t = "str"
                        /\ Len(RemoveSpaces(p.words.v[a].v)) > p.size.v

\* C29: validate_json_data returns a list of errors for every parsed value
\* and never raises; a malformed field gives error entries, and the list is
\* empty only when no puzzle has a duplicate or an oversized word.
C29_ReturnsErrorsNeverRaises ==
    out.call = "validate_json_data" =>
        /\ out.result.raised = "none"
        /\ Malformed(data) => out.result.errors # << >>
        /\ out.result.errors = << >> => ~ HasDuplicateOrOversized(data)

\* C30: a word that cleans to the empty string writes no cell; at a size of
\* 2 or more the pass records it as placed, with length 0 and a start whose
\* cell one step back along the delta lies in the grid; at size 1 the pass
\* appends the word as given to failed_words.
C30_EmptyWordWritesNothing ==
    [][ (Pending /\ PendingWord = << >>) =>
            /\ grid' = grid
            /\ size >= 2 =>
                  /\ failed_words' = failed_words
                  /\ Len(solution') = Len(solution) + 1
                  /\ SubSeq(solution', 1, Len(solution)) = solution
                  /\ \A rec \in { solution'[Len(solution')] } :
                        /\ rec.word = << >>
                        /\ parse_solution_entry(rec.word, rec.pos_str).length = 0
                        /\ \A p \in { ParsePos(rec.pos_str) } :
                              /\ InGrid(size, p.row, p.col)
                              /\ InGrid(size, p.row - p.dr, p.col - p.dc)
                              /\ << p.dr, p.dc >> \in Range(Directions(use_basic))
            /\ size = 1 =>
                  /\ solution' = solution
                  /\ failed_words' = Append(failed_words, sorted_words[idx]) ]_vars

\* a word of letters and the empty word are both placed, the empty one last,
\* and only the cells of the first are written before the fill
C30_Witness ==
    /\ pc = "fill"
    /\ size >= 2
    /\ Len(solution) = 2
    /\ solution[1].word # << >>
    /\ solution[2].word = << >>
    /\ failed_words = << >>
    /\ BlankCount(grid) = size * size - Len(solution[1].word)

====
